---- MODULE Spec2Model ----
(***************************************************************************)
(* Technical-analysis pipeline of src/python/advanced_analysis.py (the     *)
(* "full" variant, TA-Lib backed) and src/python/simple_analysis.py (the   *)
(* "reduced" variant, pandas backed): input coercion, the 30-point length  *)
(* check, the indicator battery, signal extraction, aggregation and the    *)
(* output record, with the catch-all exception boundary of each variant.   *)
(*                                                                         *)
(* Floating-point values are fixed-point integers (value * Scale) wrapped  *)
(* in a record that also carries the non-numeric outcomes the code can     *)
(* meet: NaN, +inf, -inf and Python's None.                                *)
(***************************************************************************)
EXTENDS Integers, Sequences, FiniteSets, TLC

VARIABLES
    variant,    \* "full" (advanced_analysis.py) or "reduced" (simple_analysis.py)
    data,       \* the parsed input record handed to the pipeline
    pc,         \* position inside calculate_advanced_indicators / analyze_data
    prices,     \* local np.array prices
    highs,      \* local np.array highs
    lows,       \* local np.array lows
    volumes,    \* local np.array volumes (full variant only)
    ind,        \* latest values of the indicator battery
    signals,    \* local list signals
    result,     \* the returned record
    fnIn,       \* arguments of a direct call of a pure helper
    fnOut       \* its results, one per variant

vars == <<variant, data, pc, prices, highs, lows, volumes, ind, signals, result, fnIn, fnOut>>

----------------------------------------------------------------------------
(* Bounds of the explored input family. *)

MaxAmp == 2
MaxSlope == 2
MaxExtra == 1
MaxBand == 3
Base == 100
Spread == 1
TailShort == 2
TailLong == 25

(* Program constants. *)

MinPoints == 30
RsiPeriod == 14
BbPeriod == 20
StochPeriod == 14
AtrPeriod == 14
SmaShort == 20
SmaLong == 50
MacdFast == 12
MacdSlow == 26
MacdSignal == 9

(* Fixed-point scale of a float: 1.0 is Scale. *)
Scale == 100

----------------------------------------------------------------------------
(* Floats. *)

Num(v) == [k |-> "num", v |-> v]
NaN == [k |-> "nan", v |-> 0]
PosInf == [k |-> "inf", v |-> 1]
NegInf == [k |-> "inf", v |-> -1]
PyNone == [k |-> "none", v |-> 0]

IsNum(x) == x.k = "num"
IsNaN(x) == x.k = "nan"
IsInf(x) == x.k = "inf"
IsNone(x) == x.k = "none"

(* IEEE comparison: false as soon as one side is NaN. *)
FLt(a, b) ==
    CASE IsNaN(a) \/ IsNaN(b) -> FALSE
      [] IsNum(a) /\ IsNum(b) -> a.v < b.v
      [] IsInf(a) /\ IsInf(b) -> a.v < b.v
      [] IsInf(a) -> a.v < 0
      [] OTHER -> b.v > 0

FGt(a, b) == FLt(b, a)

FEq(a, b) ==
    CASE IsNaN(a) \/ IsNaN(b) -> FALSE
      [] a.k = b.k -> a.v = b.v
      [] OTHER -> FALSE

FSub(a, b) ==
    CASE IsNum(a) /\ IsNum(b) -> Num(a.v - b.v)
      [] IsNaN(a) \/ IsNaN(b) -> NaN
      [] IsInf(a) /\ IsInf(b) -> IF a.v = b.v THEN NaN ELSE a
      [] IsInf(a) -> a
      [] OTHER -> IF b.v > 0 THEN NegInf ELSE PosInf

FAdd(a, b) ==
    CASE IsNum(a) /\ IsNum(b) -> Num(a.v + b.v)
      [] IsNaN(a) \/ IsNaN(b) -> NaN
      [] IsInf(a) /\ IsInf(b) -> IF a.v = b.v THEN a ELSE NaN
      [] IsInf(a) -> a
      [] OTHER -> b

FAbs(a) ==
    CASE IsNum(a) -> Num(IF a.v < 0 THEN -a.v ELSE a.v)
      [] IsInf(a) -> PosInf
      [] OTHER -> a

(* a / b on numpy/pandas floats: 0/0 is NaN, x/0 is +-inf, nothing raises. *)
FDiv(a, b) ==
    CASE IsNaN(a) \/ IsNaN(b) -> NaN
      [] IsNum(a) /\ IsNum(b) ->
            IF b.v > 0 THEN Num((a.v * Scale) \div b.v)
            ELSE IF b.v < 0 THEN Num(((-a.v) * Scale) \div (-b.v))
            ELSE IF a.v = 0 THEN NaN
            ELSE IF a.v > 0 THEN PosInf ELSE NegInf
      [] IsInf(a) /\ IsInf(b) -> NaN
      [] IsInf(a) -> IF (a.v > 0) = (b.v >= 0) THEN PosInf ELSE NegInf
      [] OTHER -> Num(0)

(* a * c for an integer c. *)
FScale(c, a) ==
    CASE IsNum(a) -> Num(c * a.v)
      [] OTHER -> a

----------------------------------------------------------------------------
(* Sequences of fixed-point numbers. *)

(* A recurrence over the bars a..b: st := Step(i, st) for i = a, ..., b. The test *)
(* on nxt makes the evaluation strict: the state after bar i is computed before   *)
(* bar i + 1 is entered.                                                           *)
RECURSIVE FoldRun(_, _, _, _)
FoldRun(Step(_, _), a, b, st) ==
    IF a > b THEN st
    ELSE LET nxt == Step(a, st)
         IN IF nxt = nxt THEN FoldRun(Step, a + 1, b, nxt) ELSE st

(* the same recurrence taken in runs of eight bars, which keeps the nesting of the *)
(* evaluation short on long series                                                 *)
RECURSIVE FoldBars(_, _, _, _)
FoldBars(Step(_, _), a, b, st) ==
    IF a > b THEN st
    ELSE LET nxt == FoldRun(Step, a, IF a + 7 < b THEN a + 7 ELSE b, st)
         IN IF nxt = nxt THEN FoldBars(Step, a + 8, b, nxt) ELSE st

(* s[a] + ... + s[b] *)
SumRange(s, a, b) ==
    LET step(i, acc) == acc + s[i] IN FoldBars(step, a, b, 0)

RECURSIVE MaxRange(_, _, _)
MaxRange(s, a, b) ==
    IF a = b THEN s[a]
    ELSE LET m == MaxRange(s, a + 1, b) IN IF s[a] > m THEN s[a] ELSE m

RECURSIVE MinRange(_, _, _)
MinRange(s, a, b) ==
    IF a = b THEN s[a]
    ELSE LET m == MinRange(s, a + 1, b) IN IF s[a] < m THEN s[a] ELSE m

RECURSIVE SqDevRange(_, _, _, _)
SqDevRange(s, m, a, b) ==
    IF a > b THEN 0 ELSE (s[a] - m) * (s[a] - m) + SqDevRange(s, m, a + 1, b)

RECURSIVE IsqrtIn(_, _, _)
IsqrtIn(x, lo, hi) ==
    IF lo >= hi THEN lo
    ELSE LET mid == (lo + hi + 1) \div 2
         IN IF mid * mid <= x THEN IsqrtIn(x, mid, hi) ELSE IsqrtIn(x, lo, mid - 1)

(* Integer square root. *)
Isqrt(x) == IsqrtIn(x, 0, IF x < 40000 THEN x ELSE 40000)

(* pd.Series(s)[i] under index alignment: NaN where the series has no such index. *)
SGet(s, i) == IF i \in 1..Len(s) THEN Num(s[i]) ELSE NaN

(* pd.Series(s).rolling(window=period).mean()[i] *)
RollMean(s, period, i) ==
    IF i \in period..Len(s) THEN Num(SumRange(s, i - period + 1, i) \div period) ELSE NaN

(* pd.Series(s).rolling(window=period).std()[i] (sample deviation, ddof = 1) *)
RollStd(s, period, i) ==
    IF i \in period..Len(s)
    THEN LET m == SumRange(s, i - period + 1, i) \div period
         IN Num(Isqrt(SqDevRange(s, m, i - period + 1, i) \div (period - 1)))
    ELSE NaN

RollMax(s, period, i) ==
    IF i \in period..Len(s) THEN Num(MaxRange(s, i - period + 1, i)) ELSE NaN

RollMin(s, period, i) ==
    IF i \in period..Len(s) THEN Num(MinRange(s, i - period + 1, i)) ELSE NaN

(* one step of an exponential average of span `span`: (1 - a) * prev + a * x, a = 2/(span+1) *)
EmaNext(prev, x, span) == ((span - 1) * prev + 2 * x) \div (span + 1)

(* pd.Series(s).ewm(span=span, adjust=False).mean().iloc[-1]: y[1] = s[1] *)
EwmLast(s, span) ==
    LET step(i, prev) == EmaNext(prev, s[i], span)
    IN FoldBars(step, 2, Len(s), s[1])

(* The last element of a pandas series: .iloc[-1] raises IndexError on an empty one. *)
Last(s) == s[Len(s)]

----------------------------------------------------------------------------
(* simple_analysis.py: the indicator helpers. *)

RECURSIVE GainSum(_, _, _)
(* sum of delta.where(delta > 0, 0) over a..b; the NaN delta of the first point counts 0 *)
GainSum(s, a, b) ==
    IF a > b THEN 0
    ELSE (IF a > 1 /\ s[a] > s[a - 1] THEN s[a] - s[a - 1] ELSE 0) + GainSum(s, a + 1, b)

RECURSIVE LossSum(_, _, _)
(* sum of -delta.where(delta < 0, 0) over a..b *)
LossSum(s, a, b) ==
    IF a > b THEN 0
    ELSE (IF a > 1 /\ s[a] < s[a - 1] THEN s[a - 1] - s[a] ELSE 0) + LossSum(s, a + 1, b)

(* rsi.iloc[-1] before the NaN default *)
RsiRaw(s, period) ==
    LET n == Len(s)
        gain == IF n >= period THEN Num(GainSum(s, n - period + 1, n) \div period) ELSE NaN
        loss == IF n >= period THEN Num(LossSum(s, n - period + 1, n) \div period) ELSE NaN
        rs == FDiv(gain, loss)
    IN FSub(Num(100 * Scale), FDiv(Num(100 * Scale), FAdd(Num(Scale), rs)))

calculate_rsi(s, period) ==
    LET rsi == RsiRaw(s, period) IN IF ~IsNaN(rsi) THEN rsi ELSE Num(50 * Scale)

calculate_sma(s, period) == RollMean(s, period, Len(s))

calculate_ema(s, period) == Num(EwmLast(s, period))

calculate_bollinger_bands(s) ==
    LET sma == RollMean(s, BbPeriod, Len(s))
        std == RollStd(s, BbPeriod, Len(s))
    IN [upper |-> FAdd(sma, FScale(2, std)),
        middle |-> sma,
        lower |-> FSub(sma, FScale(2, std))]

(* the three exponential averages advance together, bar by bar *)
calculate_macd(s) ==
    LET step(i, st) ==
            LET ema_fast == EmaNext(st.ema_fast, s[i], MacdFast)
                ema_slow == EmaNext(st.ema_slow, s[i], MacdSlow)
                macd_line == ema_fast - ema_slow
            IN [ema_fast |-> ema_fast, ema_slow |-> ema_slow, macd_line |-> macd_line,
                signal_line |-> EmaNext(st.signal_line, macd_line, MacdSignal)]
        last == FoldBars(step, 2, Len(s),
                         [ema_fast |-> s[1], ema_slow |-> s[1],
                          macd_line |-> 0, signal_line |-> 0])
    IN [macd |-> Num(last.macd_line),
        signal |-> Num(last.signal_line),
        histogram |-> Num(last.macd_line - last.signal_line)]

(* ndarray - Series: the operands must have the same length, else ValueError. *)
StochRaises(hs, ls, cs) == Len(cs) # Len(ls)

(* k[i]: closes - low_roll is positional; the Series / Series steps align on the   *)
(* index and leave NaN where one side has no such index.                           *)
StochK(hs, ls, cs, i) ==
    LET low_roll == RollMin(ls, StochPeriod, i)
        high_roll == RollMax(hs, StochPeriod, i)
        a == IF i \in 1..Len(cs) THEN FSub(Num(cs[i]), low_roll) ELSE NaN
    IN FDiv(FScale(100, a), FSub(high_roll, low_roll))

Max2(a, b) == IF a > b THEN a ELSE b

(* mean of the last `period` values f[m-period+1..m]; NaN unless all are numbers *)
RECURSIVE FSumRange(_, _, _)
FSumRange(f, a, b) == IF a > b THEN 0 ELSE f[a].v + FSumRange(f, a + 1, b)

FRollMeanLast(f, period, m) ==
    IF m >= period /\ \A j \in (m - period + 1)..m : IsNum(f[j])
    THEN Num(FSumRange(f, m - period + 1, m) \div period)
    ELSE NaN

calculate_stochastic(hs, ls, cs) ==
    LET m == Max2(Len(hs), Len(ls))
        k == [i \in 1..m |-> IF i > m - 3 THEN StochK(hs, ls, cs, i) ELSE NaN]
        d == FRollMeanLast(k, 3, m)
    IN [k |-> IF ~IsNaN(k[m]) THEN k[m] ELSE Num(50 * Scale),
        d |-> IF ~IsNaN(d) THEN d ELSE Num(50 * Scale)]

(* max over the non-NaN entries of a row (DataFrame.max(axis=1) skips NaN) *)
FMaxSkipNa(a, b) ==
    CASE IsNaN(a) -> b
      [] IsNaN(b) -> a
      [] OTHER -> IF FLt(a, b) THEN b ELSE a

(* close.shift()[i] *)
Shift(cs, i) == IF i \in 2..Len(cs) THEN Num(cs[i - 1]) ELSE NaN

TrueRange(hs, ls, cs, i) ==
    LET tr1 == FSub(SGet(hs, i), SGet(ls, i))
        tr2 == FAbs(FSub(SGet(hs, i), Shift(cs, i)))
        tr3 == FAbs(FSub(SGet(ls, i), Shift(cs, i)))
    IN FMaxSkipNa(FMaxSkipNa(tr1, tr2), tr3)

calculate_atr(hs, ls, cs, period) ==
    LET m == Max2(Max2(Len(hs), Len(ls)), Len(cs))
        tr == [i \in 1..m |-> IF i > m - period THEN TrueRange(hs, ls, cs, i) ELSE NaN]
        atr == FRollMeanLast(tr, period, m)
    IN IF ~IsNaN(atr) THEN atr ELSE Num(0)

(* simple_analysis.calculate_bb_position *)
calculate_bb_position_reduced(price, upper, lower) ==
    IF FEq(upper, lower) THEN "UNKNOWN"
    ELSE LET position == FDiv(FSub(price, lower), FSub(upper, lower))
         IN IF FLt(position, Num(Scale \div 5)) THEN "LOWER"
            ELSE IF FGt(position, Num((4 * Scale) \div 5)) THEN "UPPER"
            ELSE "MIDDLE"


----------------------------------------------------------------------------
(* advanced_analysis.py: the TA-Lib calls. Each returns an array as long as    *)
(* its input whose first `lookback` points are NaN; the operators below give   *)
(* the last point. A call with input arrays of different lengths raises.       *)

talib_raises2(a, b) == Len(a) # Len(b)
talib_raises3(a, b, c) == Len(a) # Len(b) \/ Len(a) # Len(c)
talib_raises4(a, b, c, d) == Len(a) # Len(b) \/ Len(a) # Len(c) \/ Len(a) # Len(d)

Gain(s, i) == IF s[i] > s[i - 1] THEN s[i] - s[i - 1] ELSE 0
Loss(s, i) == IF s[i] < s[i - 1] THEN s[i - 1] - s[i] ELSE 0

(* Wilder smoothing: prev = (prev * (period - 1) + term) / period *)
WilderNext(prev, x, period) == (prev * (period - 1) + x) \div period

(* talib.RSI(s, timeperiod=period)[-1]; lookback = period. The averages start as   *)
(* the means of the first `period` gains and losses.                               *)
talib_RSI(s, period) ==
    LET n == Len(s)
        step(i, st) == [g |-> WilderNext(st.g, Gain(s, i), period),
                        l |-> WilderNext(st.l, Loss(s, i), period)]
    IN IF n <= period THEN NaN
       ELSE LET last == FoldBars(step, period + 2, n,
                                 [g |-> GainSum(s, 2, period + 1) \div period,
                                  l |-> LossSum(s, 2, period + 1) \div period])
            IN IF last.g + last.l = 0 THEN Num(0)
               ELSE Num((100 * Scale * last.g) \div (last.g + last.l))

(* talib.SMA(s, timeperiod=period)[-1]; lookback = period - 1 *)
talib_SMA(s, period) == RollMean(s, period, Len(s))

(* talib.EMA(s, timeperiod=period)[-1]; lookback = period - 1; seeded with the mean *)
(* of the first `period` points                                                     *)
talib_EMA(s, period) ==
    LET step(i, prev) == EmaNext(prev, s[i], period)
    IN IF Len(s) < period THEN NaN
       ELSE Num(FoldBars(step, period + 1, Len(s), SumRange(s, 1, period) \div period))

(* talib.MACD(s, 12, 26, 9), last points; lookback = (26 - 1) + (9 - 1) = 33. Both  *)
(* averages are seeded at bar 26; the signal line is seeded at bar 34 with the mean *)
(* of the first nine MACD values.                                                   *)
talib_MACD(s) ==
    LET n == Len(s)
        first == MacdSlow + MacdSignal - 1
        step(i, st) ==
            LET fast == EmaNext(st.fast, s[i], MacdFast)
                slow == EmaNext(st.slow, s[i], MacdSlow)
                macd == fast - slow
            IN [fast |-> fast, slow |-> slow, macd |-> macd,
                sum |-> st.sum + macd,
                signal |-> IF i < first THEN 0
                           ELSE IF i = first THEN (st.sum + macd) \div MacdSignal
                           ELSE EmaNext(st.signal, macd, MacdSignal)]
    IN IF n < first
       THEN [macd |-> NaN, signal |-> NaN, histogram |-> NaN]
       ELSE LET fast0 == SumRange(s, MacdSlow - MacdFast + 1, MacdSlow) \div MacdFast
                slow0 == SumRange(s, 1, MacdSlow) \div MacdSlow
                last == FoldBars(step, MacdSlow + 1, n,
                                 [fast |-> fast0, slow |-> slow0, macd |-> fast0 - slow0,
                                  sum |-> fast0 - slow0, signal |-> 0])
            IN [macd |-> Num(last.macd),
                signal |-> Num(last.signal),
                histogram |-> Num(last.macd - last.signal)]

(* talib.BBANDS(s, 20, 2, 2), last points; lookback = 19; population deviation *)
talib_BBANDS(s) ==
    LET n == Len(s) IN
    IF n < BbPeriod THEN [upper |-> NaN, middle |-> NaN, lower |-> NaN]
    ELSE LET m == SumRange(s, n - BbPeriod + 1, n) \div BbPeriod
             sd == Isqrt(SqDevRange(s, m, n - BbPeriod + 1, n) \div BbPeriod)
         IN [upper |-> Num(m + 2 * sd), middle |-> Num(m), lower |-> Num(m - 2 * sd)]

(* fast %K at index i >= 14; 0 on a zero range *)
FastK(hs, ls, cs, i) ==
    LET hh == MaxRange(hs, i - StochPeriod + 1, i)
        ll == MinRange(ls, i - StochPeriod + 1, i)
    IN IF hh = ll THEN 0 ELSE (100 * Scale * (cs[i] - ll)) \div (hh - ll)

SlowK(hs, ls, cs, i) ==
    (FastK(hs, ls, cs, i - 2) + FastK(hs, ls, cs, i - 1) + FastK(hs, ls, cs, i)) \div 3

(* talib.STOCH(h, l, c, 14, 3, 3), last points; lookback = 13 + 2 + 2 = 17 *)
talib_STOCH(hs, ls, cs) ==
    LET n == Len(cs) IN
    IF n < StochPeriod + 4 THEN [slowk |-> NaN, slowd |-> NaN]
    ELSE [slowk |-> Num(SlowK(hs, ls, cs, n)),
          slowd |-> Num((SlowK(hs, ls, cs, n - 2) + SlowK(hs, ls, cs, n - 1)
                         + SlowK(hs, ls, cs, n)) \div 3)]

Abs(x) == IF x < 0 THEN -x ELSE x

(* true range at index i >= 2 *)
TRange(hs, ls, cs, i) ==
    Max2(hs[i] - ls[i], Max2(Abs(hs[i] - cs[i - 1]), Abs(ls[i] - cs[i - 1])))

RECURSIVE TRangeSum(_, _, _, _, _)
TRangeSum(hs, ls, cs, a, b) ==
    IF a > b THEN 0 ELSE TRange(hs, ls, cs, a) + TRangeSum(hs, ls, cs, a + 1, b)

(* talib.ATR(h, l, c, timeperiod=14)[-1]; lookback = 14 *)
talib_ATR(hs, ls, cs) ==
    LET step(i, prev) == WilderNext(prev, TRange(hs, ls, cs, i), AtrPeriod)
    IN IF Len(cs) <= AtrPeriod THEN NaN
       ELSE Num(FoldBars(step, AtrPeriod + 2, Len(cs),
                         TRangeSum(hs, ls, cs, 2, AtrPeriod + 1) \div AtrPeriod))

PlusDM(hs, ls, i) ==
    LET up == hs[i] - hs[i - 1]
        dn == ls[i - 1] - ls[i]
    IN IF up > 0 /\ up > dn THEN up ELSE 0

MinusDM(hs, ls, i) ==
    LET up == hs[i] - hs[i - 1]
        dn == ls[i - 1] - ls[i]
    IN IF dn > 0 /\ dn > up THEN dn ELSE 0

(* the directional index from the smoothed +DM, -DM and true range sums *)
DX(sp, sm, st) ==
    LET pdi == IF st = 0 THEN 0 ELSE (100 * Scale * sp) \div st
        mdi == IF st = 0 THEN 0 ELSE (100 * Scale * sm) \div st
    IN IF pdi + mdi = 0 THEN 0 ELSE (100 * Scale * Abs(pdi - mdi)) \div (pdi + mdi)

(* One bar of the ADX smoothing: bars 2..period sum +DM, -DM and the true range,   *)
(* the next period bars smooth the sums and add up DX, later bars smooth ADX.      *)
AdxStep(hs, ls, cs, period, i, st) ==
    IF i <= period
    THEN [sp |-> st.sp + PlusDM(hs, ls, i), sm |-> st.sm + MinusDM(hs, ls, i),
          st |-> st.st + TRange(hs, ls, cs, i), acc |-> 0]
    ELSE LET sp2 == st.sp - (st.sp \div period) + PlusDM(hs, ls, i)
             sm2 == st.sm - (st.sm \div period) + MinusDM(hs, ls, i)
             st2 == st.st - (st.st \div period) + TRange(hs, ls, cs, i)
             dx == DX(sp2, sm2, st2)
         IN [sp |-> sp2, sm |-> sm2, st |-> st2,
             acc |-> IF i < 2 * period THEN st.acc + dx
                     ELSE IF i = 2 * period THEN (st.acc + dx) \div period
                     ELSE WilderNext(st.acc, dx, period)]

(* talib.ADX(h, l, c, timeperiod=14)[-1]; lookback = 2 * 14 - 1 = 27 *)
talib_ADX(hs, ls, cs) ==
    LET step(i, st) == AdxStep(hs, ls, cs, AtrPeriod, i, st)
    IN IF Len(cs) < 2 * AtrPeriod THEN NaN
       ELSE Num(FoldBars(step, 2, Len(cs), [sp |-> 0, sm |-> 0, st |-> 0, acc |-> 0]).acc)

(* talib.OBV(c, v)[-1]; lookback = 0 *)
talib_OBV(cs, vs) ==
    LET step(i, prev) ==
            prev + (IF cs[i] > cs[i - 1] THEN vs[i]
                    ELSE IF cs[i] < cs[i - 1] THEN -vs[i] ELSE 0)
    IN IF Len(cs) = 0 THEN NaN ELSE Num(FoldBars(step, 2, Len(cs), vs[1]))

(* talib.WILLR(h, l, c, timeperiod=14)[-1]; lookback = 13 *)
talib_WILLR(hs, ls, cs) ==
    LET n == Len(cs) IN
    IF n < StochPeriod THEN NaN
    ELSE LET hh == MaxRange(hs, n - StochPeriod + 1, n)
             ll == MinRange(ls, n - StochPeriod + 1, n)
         IN IF hh = ll THEN Num(0) ELSE Num((-100 * Scale * (hh - cs[n])) \div (hh - ll))

TypPrice(hs, ls, cs) == [i \in 1..Len(cs) |-> (hs[i] + ls[i] + cs[i]) \div 3]

RECURSIVE AbsDevRange(_, _, _, _)
AbsDevRange(s, m, a, b) ==
    IF a > b THEN 0 ELSE Abs(s[a] - m) + AbsDevRange(s, m, a + 1, b)

(* talib.CCI(h, l, c, timeperiod=14)[-1]; lookback = 13 *)
talib_CCI(hs, ls, cs) ==
    LET n == Len(cs) IN
    IF n < StochPeriod THEN NaN
    ELSE LET tp == TypPrice(hs, ls, cs)
             avg == SumRange(tp, n - StochPeriod + 1, n) \div StochPeriod
             md == AbsDevRange(tp, avg, n - StochPeriod + 1, n) \div StochPeriod
         IN IF md = 0 \/ tp[n] = avg THEN Num(0)
            ELSE Num(((tp[n] - avg) * 1000 * Scale) \div (15 * md))

RECURSIVE FlowSum(_, _, _, _, _)
(* money flow of the bars a..b whose typical price moved in direction dir *)
FlowSum(tp, vs, dir, a, b) ==
    IF a > b THEN 0
    ELSE (IF (dir > 0 /\ tp[a] > tp[a - 1]) \/ (dir < 0 /\ tp[a] < tp[a - 1])
          THEN (tp[a] * vs[a]) \div Scale ELSE 0)
         + FlowSum(tp, vs, dir, a + 1, b)

(* talib.MFI(h, l, c, v, timeperiod=14)[-1]; lookback = 14 *)
talib_MFI(hs, ls, cs, vs) ==
    LET n == Len(cs) IN
    IF n <= StochPeriod THEN NaN
    ELSE LET tp == TypPrice(hs, ls, cs)
             pos == FlowSum(tp, vs, 1, n - StochPeriod + 1, n)
             neg == FlowSum(tp, vs, -1, n - StochPeriod + 1, n)
         IN IF pos + neg < Scale THEN Num(0)
            ELSE Num((100 * pos) \div ((pos + neg) \div Scale))

Min2(a, b) == IF a < b THEN a ELSE b

(* Parabolic SAR, one bar: st = [long, sar, ep, af], result the state after bar i *)
(* with out the value reported for bar i.                                         *)
SarStep(hs, ls, i, st) ==
    IF st.long
    THEN IF ls[i] <= st.sar
         THEN LET rev == Max2(Max2(st.ep, hs[i - 1]), hs[i])
                  nxt == rev + (2 * (ls[i] - rev)) \div Scale
              IN [long |-> FALSE, out |-> rev, ep |-> ls[i], af |-> 2,
                  sar |-> Max2(Max2(nxt, hs[i - 1]), hs[i])]
         ELSE LET ep2 == Max2(st.ep, hs[i])
                  af2 == IF hs[i] > st.ep THEN Min2(st.af + 2, 20) ELSE st.af
                  nxt == st.sar + (af2 * (ep2 - st.sar)) \div Scale
              IN [long |-> TRUE, out |-> st.sar, ep |-> ep2, af |-> af2,
                  sar |-> Min2(Min2(nxt, ls[i - 1]), ls[i])]
    ELSE IF hs[i] >= st.sar
         THEN LET rev == Min2(Min2(st.ep, ls[i - 1]), ls[i])
                  nxt == rev + (2 * (hs[i] - rev)) \div Scale
              IN [long |-> TRUE, out |-> rev, ep |-> hs[i], af |-> 2,
                  sar |-> Min2(Min2(nxt, ls[i - 1]), ls[i])]
         ELSE LET ep2 == Min2(st.ep, ls[i])
                  af2 == IF ls[i] < st.ep THEN Min2(st.af + 2, 20) ELSE st.af
                  nxt == st.sar + (af2 * (ep2 - st.sar)) \div Scale
              IN [long |-> FALSE, out |-> st.sar, ep |-> ep2, af |-> af2,
                  sar |-> Max2(Max2(nxt, hs[i - 1]), hs[i])]

(* talib.SAR(h, l, acceleration=0.02, maximum=0.2)[-1]; lookback = 1 *)
talib_SAR(hs, ls) ==
    LET long == ~(MinusDM(hs, ls, 2) > 0)
        st0 == [long |-> long, out |-> 0, af |-> 2,
                ep |-> IF long THEN hs[2] ELSE ls[2],
                sar |-> IF long THEN ls[1] ELSE hs[1]]
        step(i, st) == SarStep(hs, ls, i, st)
    IN IF Len(hs) < 2 THEN NaN ELSE Num(FoldBars(step, 2, Len(hs), st0).out)

(* get_last without its NaN test: an undefined point is passed on as NaN *)
get_last_keeps_nan(x) == x

(* get_last: the last point, None when the array is empty or the point is NaN *)
get_last(x) == IF ~IsNaN(x) THEN x ELSE PyNone

(* advanced_analysis.calculate_bb_position; `not x` holds of None and of 0.0 *)
PyNot(x) == IsNone(x) \/ (IsNum(x) /\ x.v = 0)

calculate_bb_position_full(price, upper, lower) ==
    IF PyNot(upper) \/ PyNot(lower) \/ FEq(upper, lower) THEN "UNKNOWN"
    ELSE LET position == FDiv(FSub(price, lower), FSub(upper, lower))
         IN IF FLt(position, Num(Scale \div 5)) THEN "LOWER"
            ELSE IF FGt(position, Num((4 * Scale) \div 5)) THEN "UPPER"
            ELSE "MIDDLE"


----------------------------------------------------------------------------
(* Aggregation. *)

RECURSIVE CountIn(_, _)
(* sum(1 for s in signals if s in members) *)
CountIn(sigs, members) ==
    IF sigs = <<>> THEN 0
    ELSE (IF Head(sigs) \in members THEN 1 ELSE 0) + CountIn(Tail(sigs), members)

bullish_signals_full == {"RSI_OVERSOLD", "MACD_BULLISH", "BB_OVERSOLD"}
bearish_signals_full == {"RSI_OVERBOUGHT", "MACD_BEARISH", "BB_OVERBOUGHT"}
bullish_signals_reduced == {"RSI_OVERSOLD", "MACD_BULLISH", "BB_OVERSOLD", "TREND_BULLISH"}
bearish_signals_reduced == {"RSI_OVERBOUGHT", "MACD_BEARISH", "BB_OVERBOUGHT", "TREND_BEARISH"}

(* generate_summary with the two comparisons of the counts turned round *)
generate_summary_flipped(sigs) ==
    LET bullish_count == CountIn(sigs, bullish_signals_full)
        bearish_count == CountIn(sigs, bearish_signals_full)
    IN IF bullish_count < bearish_count
       THEN [action |-> "BUY", strength |-> bullish_count,
             confidence |-> Min2(bullish_count * 25, 85)]
       ELSE IF bearish_count < bullish_count
       THEN [action |-> "SELL", strength |-> bearish_count,
             confidence |-> Min2(bearish_count * 25, 85)]
       ELSE [action |-> "HOLD", strength |-> 0, confidence |-> 50]

(* confidences are in hundredths: 0.25 is 25 *)
generate_summary(sigs) ==
    LET bullish_count == CountIn(sigs, bullish_signals_full)
        bearish_count == CountIn(sigs, bearish_signals_full)
    IN IF bullish_count > bearish_count
       THEN [action |-> "BUY", strength |-> bullish_count,
             confidence |-> Min2(bullish_count * 25, 85)]
       ELSE IF bearish_count > bullish_count
       THEN [action |-> "SELL", strength |-> bearish_count,
             confidence |-> Min2(bearish_count * 25, 85)]
       ELSE [action |-> "HOLD", strength |-> 0, confidence |-> 50]

(* the inline summary with the full variant's factor 0.25 in place of 0.2 *)
reduced_summary_quarter(sigs) ==
    LET bullish_count == CountIn(sigs, bullish_signals_reduced)
        bearish_count == CountIn(sigs, bearish_signals_reduced)
        action == IF bullish_count > bearish_count THEN "BUY"
                  ELSE IF bearish_count > bullish_count THEN "SELL" ELSE "HOLD"
        confidence == IF bullish_count > bearish_count THEN Min2(bullish_count * 25, 80)
                      ELSE IF bearish_count > bullish_count THEN Min2(bearish_count * 25, 80)
                      ELSE 50
    IN [action |-> action,
        strength |-> Max2(bullish_count, bearish_count),
        confidence |-> confidence]

(* the summary analyze_data builds inline *)
reduced_summary(sigs) ==
    LET bullish_count == CountIn(sigs, bullish_signals_reduced)
        bearish_count == CountIn(sigs, bearish_signals_reduced)
        action == IF bullish_count > bearish_count THEN "BUY"
                  ELSE IF bearish_count > bullish_count THEN "SELL" ELSE "HOLD"
        confidence == IF bullish_count > bearish_count THEN Min2(bullish_count * 20, 80)
                      ELSE IF bearish_count > bullish_count THEN Min2(bearish_count * 20, 80)
                      ELSE 50
    IN [action |-> action,
        strength |-> Max2(bullish_count, bearish_count),
        confidence |-> confidence]

----------------------------------------------------------------------------
(* The pipeline. *)

(* np.array(xs, dtype=float) *)
ToFloat(xs) == [i \in 1..Len(xs) |-> xs[i] * Scale]

Field(d, key, default) == IF key \in DOMAIN d THEN d[key] ELSE default

Ones(n) == [i \in 1..n |-> 1]

(* a comparison one of whose operands is None raises TypeError *)
CmpRaises(a, b) == IsNone(a) \/ IsNone(b)

Failure(msg) == [success |-> FALSE, error |-> msg]

Pct(c, x) == Num((c * x) \div 100)

(* lines 25-28 / 87-89 *)
Coerce ==
    /\ pc = "start"
    /\ prices' = ToFloat(Field(data, "prices", <<>>))
    /\ highs' = IF "highs" \in DOMAIN data THEN ToFloat(data.highs) ELSE prices'
    /\ lows' = IF "lows" \in DOMAIN data THEN ToFloat(data.lows) ELSE prices'
    /\ volumes' = IF variant = "full"
                  THEN ToFloat(Field(data, "volumes", Ones(Len(prices'))))
                  ELSE <<>>
    /\ pc' = "coerced"
    /\ UNCHANGED <<variant, data, ind, signals, result, fnIn, fnOut>>

(* lines 30-31 / 91-92 *)
CheckLength ==
    /\ pc = "coerced"
    /\ IF Len(prices) < MinPoints
       THEN /\ result' = IF variant = "full"
                         THEN [error |-> "Need at least 30 data points"]
                         ELSE Failure("Need at least 30 data points")
            /\ pc' = "done"
       ELSE /\ pc' = "checked"
            /\ UNCHANGED result
    /\ UNCHANGED <<variant, data, prices, highs, lows, volumes, ind, signals, fnIn, fnOut>>

(* advanced_analysis.py lines 33-81: some TA-Lib call is given arrays of different lengths *)
FullBatteryRaises ==
    \/ talib_raises3(highs, lows, prices)
    \/ talib_raises2(prices, volumes)
    \/ talib_raises4(highs, lows, prices, volumes)
    \/ talib_raises2(highs, lows)

FullBattery ==
    LET macd == talib_MACD(prices)
        bb == talib_BBANDS(prices)
        st == talib_STOCH(highs, lows, prices)
    IN [rsi_14 |-> talib_RSI(prices, RsiPeriod),
        rsi_7 |-> talib_RSI(prices, 7),
        rsi_21 |-> talib_RSI(prices, 21),
        macd |-> macd.macd, macd_signal |-> macd.signal, macd_hist |-> macd.histogram,
        bb_upper |-> bb.upper, bb_middle |-> bb.middle, bb_lower |-> bb.lower,
        adx |-> talib_ADX(highs, lows, prices),
        slowk |-> st.slowk, slowd |-> st.slowd,
        atr |-> talib_ATR(highs, lows, prices),
        obv |-> talib_OBV(prices, volumes),
        willr |-> talib_WILLR(highs, lows, prices),
        cci |-> talib_CCI(highs, lows, prices),
        mfi |-> talib_MFI(highs, lows, prices, volumes),
        sma_20 |-> talib_SMA(prices, SmaShort),
        sma_50 |-> talib_SMA(prices, SmaLong),
        ema_12 |-> talib_EMA(prices, MacdFast),
        ema_26 |-> talib_EMA(prices, MacdSlow),
        sar |-> talib_SAR(highs, lows)]

(* simple_analysis.py lines 95-107 *)
ReducedBatteryRaises == StochRaises(highs, lows, prices)

ReducedBattery ==
    LET bb == calculate_bollinger_bands(prices)
        macd_data == calculate_macd(prices)
        stoch == calculate_stochastic(highs, lows, prices)
    IN [rsi_14 |-> calculate_rsi(prices, RsiPeriod),
        rsi_7 |-> calculate_rsi(prices, 7),
        rsi_21 |-> calculate_rsi(prices, 21),
        macd |-> macd_data.macd, macd_signal |-> macd_data.signal,
        macd_hist |-> macd_data.histogram,
        bb_upper |-> bb.upper, bb_middle |-> bb.middle, bb_lower |-> bb.lower,
        stoch_k |-> stoch.k, stoch_d |-> stoch.d,
        atr |-> calculate_atr(highs, lows, prices, AtrPeriod),
        sma_20 |-> calculate_sma(prices, SmaShort),
        sma_50 |-> calculate_sma(prices, SmaLong),
        ema_12 |-> calculate_ema(prices, MacdFast),
        ema_26 |-> calculate_ema(prices, MacdSlow)]

(* the indicator battery of either variant; an exception ends in the catch-all *)
Battery ==
    /\ pc = "checked"
    /\ IF variant = "full"
       THEN IF FullBatteryRaises
            THEN /\ result' = Failure("input array lengths are different")
                 /\ pc' = "done"
                 /\ UNCHANGED ind
            ELSE /\ ind' = FullBattery
                 /\ pc' = "computed"
                 /\ UNCHANGED result
       ELSE IF ReducedBatteryRaises
            THEN /\ result' = Failure("operands could not be broadcast together")
                 /\ pc' = "done"
                 /\ UNCHANGED ind
            ELSE /\ ind' = ReducedBattery
                 /\ pc' = "computed"
                 /\ UNCHANGED result
    /\ UNCHANGED <<variant, data, prices, highs, lows, volumes, signals, fnIn, fnOut>>


PyTruthy(x) == ~PyNot(x)

Opt(cond, label) == IF cond THEN <<label>> ELSE <<>>

(* advanced_analysis.py lines 88-89 (find_peaks) compute two values that are never *)
(* read and change nothing; they have no counterpart here.                        *)
(* advanced_analysis.py lines 92-118: the comparisons in the order the code makes them *)
FullSignalsRaise ==
    LET current_price == Num(Last(prices)) IN
    \/ CmpRaises(get_last(ind.rsi_14), Num(30 * Scale))
    \/ CmpRaises(get_last(ind.macd), get_last(ind.macd_signal))
    \/ CmpRaises(current_price, get_last(ind.bb_lower))
    \/ /\ ~FLt(current_price, get_last(ind.bb_lower))
       /\ CmpRaises(current_price, get_last(ind.bb_upper))

FullSignals ==
    LET rsi == get_last(ind.rsi_14)
        adx_value == get_last(ind.adx)
        current_price == Num(Last(prices))
    IN  (IF FLt(rsi, Num(30 * Scale)) THEN <<"RSI_OVERSOLD">>
         ELSE Opt(FGt(rsi, Num(70 * Scale)), "RSI_OVERBOUGHT"))
        \o (IF FGt(get_last(ind.macd), get_last(ind.macd_signal))
            THEN <<"MACD_BULLISH">> ELSE <<"MACD_BEARISH">>)
        \o (IF PyTruthy(adx_value) /\ FGt(adx_value, Num(25 * Scale)) THEN <<"STRONG_TREND">>
            ELSE Opt(PyTruthy(adx_value) /\ FLt(adx_value, Num(20 * Scale)), "WEAK_TREND"))
        \o (IF FLt(current_price, get_last(ind.bb_lower)) THEN <<"BB_OVERSOLD">>
            ELSE Opt(FGt(current_price, get_last(ind.bb_upper)), "BB_OVERBOUGHT"))

(* the reduced extraction with a non-strict MACD comparison (macd >= signal) *)
ReducedSignals_nonstrict ==
    LET current_price == Num(Last(prices)) IN
        (IF FLt(ind.rsi_14, Num(30 * Scale)) THEN <<"RSI_OVERSOLD">>
         ELSE Opt(FGt(ind.rsi_14, Num(70 * Scale)), "RSI_OVERBOUGHT"))
        \o (IF FGt(ind.macd, ind.macd_signal) \/ FEq(ind.macd, ind.macd_signal)
            THEN <<"MACD_BULLISH">> ELSE <<"MACD_BEARISH">>)
        \o (IF FLt(current_price, ind.bb_lower) THEN <<"BB_OVERSOLD">>
            ELSE Opt(FGt(current_price, ind.bb_upper), "BB_OVERBOUGHT"))
        \o (IF FGt(ind.sma_20, ind.sma_50) THEN <<"TREND_BULLISH">> ELSE <<"TREND_BEARISH">>)

(* simple_analysis.py lines 110-131 *)
ReducedSignals ==
    LET current_price == Num(Last(prices)) IN
        (IF FLt(ind.rsi_14, Num(30 * Scale)) THEN <<"RSI_OVERSOLD">>
         ELSE Opt(FGt(ind.rsi_14, Num(70 * Scale)), "RSI_OVERBOUGHT"))
        \o (IF FGt(ind.macd, ind.macd_signal) THEN <<"MACD_BULLISH">> ELSE <<"MACD_BEARISH">>)
        \o (IF FLt(current_price, ind.bb_lower) THEN <<"BB_OVERSOLD">>
            ELSE Opt(FGt(current_price, ind.bb_upper), "BB_OVERBOUGHT"))
        \o (IF FGt(ind.sma_20, ind.sma_50) THEN <<"TREND_BULLISH">> ELSE <<"TREND_BEARISH">>)

(* signal extraction of either variant *)
ExtractSignals ==
    /\ pc = "computed"
    /\ IF variant = "full"
       THEN IF FullSignalsRaise
            THEN /\ result' = Failure("'<' not supported between instances")
                 /\ pc' = "done"
                 /\ UNCHANGED signals
            ELSE /\ signals' = FullSignals
                 /\ pc' = "extracted"
                 /\ UNCHANGED result
       ELSE /\ signals' = ReducedSignals
            /\ pc' = "extracted"
            /\ UNCHANGED result
    /\ UNCHANGED <<variant, data, prices, highs, lows, volumes, ind, fnIn, fnOut>>

(* advanced_analysis.py lines 120-168: comparisons made while the record is built *)
FullRecordRaises ==
    \/ CmpRaises(get_last(ind.macd), get_last(ind.macd_signal))
    \/ CmpRaises(get_last(ind.slowk), Num(20 * Scale))
    \/ CmpRaises(get_last(ind.atr), Num(Last(prices)))
    \/ CmpRaises(get_last(ind.sma_20), get_last(ind.sma_50))

FullRecord ==
    LET current_price == Num(Last(prices))
        adx_value == get_last(ind.adx)
        slowk == get_last(ind.slowk)
    IN [success |-> TRUE,
        indicators |-> [
            rsi |-> [rsi_14 |-> get_last(ind.rsi_14), rsi_7 |-> get_last(ind.rsi_7),
                     rsi_21 |-> get_last(ind.rsi_21)],
            macd |-> [macd |-> get_last(ind.macd), signal |-> get_last(ind.macd_signal),
                      histogram |-> get_last(ind.macd_hist),
                      trend |-> IF FGt(get_last(ind.macd), get_last(ind.macd_signal))
                                THEN "BULLISH" ELSE "BEARISH"],
            bollinger |-> [upper |-> get_last(ind.bb_upper),
                           middle |-> get_last(ind.bb_middle),
                           lower |-> get_last(ind.bb_lower),
                           position |-> calculate_bb_position_full(
                               current_price, get_last(ind.bb_upper), get_last(ind.bb_lower))],
            adx |-> [value |-> get_last(ind.adx),
                     strength |-> IF PyTruthy(adx_value) /\ FGt(adx_value, Num(25 * Scale))
                                  THEN "STRONG" ELSE "WEAK"],
            stochastic |-> [k |-> slowk, d |-> get_last(ind.slowd),
                            signal |-> IF FLt(slowk, Num(20 * Scale)) THEN "OVERSOLD"
                                       ELSE IF FGt(slowk, Num(80 * Scale)) THEN "OVERBOUGHT"
                                       ELSE "NEUTRAL"],
            atr |-> [value |-> get_last(ind.atr),
                     volatility |-> IF FGt(get_last(ind.atr), Pct(5, Last(prices)))
                                    THEN "HIGH" ELSE "LOW"],
            obv |-> get_last(ind.obv),
            williams_r |-> get_last(ind.willr),
            cci |-> get_last(ind.cci),
            mfi |-> get_last(ind.mfi),
            moving_averages |-> [sma_20 |-> get_last(ind.sma_20),
                                 sma_50 |-> get_last(ind.sma_50),
                                 ema_12 |-> get_last(ind.ema_12),
                                 ema_26 |-> get_last(ind.ema_26),
                                 trend |-> IF FGt(get_last(ind.sma_20), get_last(ind.sma_50))
                                           THEN "BULLISH" ELSE "BEARISH"],
            sar |-> get_last(ind.sar)],
        signals |-> signals,
        summary |-> generate_summary(signals)]

(* simple_analysis.py lines 133-193; float(x) keeps a NaN *)
ReducedRecord ==
    LET current_price == Num(Last(prices)) IN
    [success |-> TRUE,
     indicators |-> [
         rsi |-> [rsi_14 |-> ind.rsi_14, rsi_7 |-> ind.rsi_7, rsi_21 |-> ind.rsi_21],
         macd |-> [macd |-> ind.macd, signal |-> ind.macd_signal,
                   histogram |-> ind.macd_hist,
                   trend |-> IF FGt(ind.macd, ind.macd_signal) THEN "BULLISH" ELSE "BEARISH"],
         bollinger |-> [upper |-> ind.bb_upper, middle |-> ind.bb_middle,
                        lower |-> ind.bb_lower,
                        position |-> calculate_bb_position_reduced(
                            current_price, ind.bb_upper, ind.bb_lower)],
         stochastic |-> [k |-> ind.stoch_k, d |-> ind.stoch_d,
                         signal |-> IF FLt(ind.stoch_k, Num(20 * Scale)) THEN "OVERSOLD"
                                    ELSE IF FGt(ind.stoch_k, Num(80 * Scale)) THEN "OVERBOUGHT"
                                    ELSE "NEUTRAL"],
         atr |-> [value |-> ind.atr,
                  volatility |-> IF FGt(ind.atr, Pct(5, Last(prices))) THEN "HIGH"
                                 ELSE IF FGt(ind.atr, Pct(2, Last(prices))) THEN "MEDIUM"
                                 ELSE "LOW"],
         moving_averages |-> [sma_20 |-> ind.sma_20, sma_50 |-> ind.sma_50,
                              ema_12 |-> ind.ema_12, ema_26 |-> ind.ema_26,
                              trend |-> IF FGt(ind.sma_20, ind.sma_50)
                                        THEN "BULLISH" ELSE "BEARISH"]],
     signals |-> signals,
     summary |-> reduced_summary(signals)]

(* the output record of either variant *)
BuildRecord ==
    /\ pc = "extracted"
    /\ result' = IF variant = "full"
                 THEN IF FullRecordRaises
                      THEN Failure("'>' not supported between instances")
                      ELSE FullRecord
                 ELSE ReducedRecord
    /\ pc' = "done"
    /\ UNCHANGED <<variant, data, prices, highs, lows, volumes, ind, signals, fnIn, fnOut>>


----------------------------------------------------------------------------
(* Inputs. *)

(* a price series: a zigzag of amplitude amp around Base whose last `tail` points *)
(* climb or fall by `slope` a step                                                 *)
PriceSeries(n, amp, slope, tail) ==
    [i \in 1..n |-> Base + amp * (i % 2) + slope * Max2(0, i - (n - tail))]

(* a series of len points that follows p shifted by off, flat past its end *)
Follow(p, off, len) ==
    [i \in 1..len |-> IF Len(p) = 0 THEN Base + off
                      ELSE IF i <= Len(p) THEN p[i] + off ELSE p[Len(p)] + off]

VolumeSeries(len) == [i \in 1..len |-> 1 + (i % 2)]

(* the input record; hOpt, lOpt, vOpt are <<>> (key absent) or <<d>> (key present, *)
(* its series d points longer than prices)                                          *)
MkData(p, hOpt, lOpt, vOpt) ==
    LET keys == {"prices"}
                \cup (IF hOpt = <<>> THEN {} ELSE {"highs"})
                \cup (IF lOpt = <<>> THEN {} ELSE {"lows"})
                \cup (IF vOpt = <<>> THEN {} ELSE {"volumes"})
    IN [key \in keys |->
            CASE key = "prices" -> p
              [] key = "highs" -> Follow(p, Spread, Max2(0, Len(p) + hOpt[1]))
              [] key = "lows" -> Follow(p, -Spread, Max2(0, Len(p) + lOpt[1]))
              [] OTHER -> VolumeSeries(Max2(0, Len(p) + vOpt[1]))]

Lengths ==
    {0, MinPoints - 1, MinPoints, MacdSlow + MacdSignal - 2, MacdSlow + MacdSignal - 1,
     SmaLong - 1} \cup (SmaLong..(SmaLong + MaxExtra))

Shapes ==
    {PriceSeries(n, amp, slope, tail) :
        n \in Lengths, amp \in 0..MaxAmp, slope \in (-MaxSlope)..MaxSlope,
        tail \in {TailShort, TailLong}}

LenOpts == {<<>>} \cup {<<d>> : d \in (-MaxExtra)..MaxExtra}

(* well-formed inputs: prices alone, or all four series of one length *)
AlignedInputs ==
    {MkData(p, o, o, o) : p \in Shapes, o \in {<<>>, <<0>>}}

(* inputs whose optional series may differ in length from prices *)
RaggedInputs ==
    {MkData(PriceSeries(n, 1, 0, TailShort), h, l, v) :
        n \in {MinPoints - 1, MinPoints, SmaLong}, h \in LenOpts, l \in LenOpts, v \in LenOpts}

Idle == [kind |-> "none"]

Init ==
    /\ variant \in {"full", "reduced"}
    /\ data \in AlignedInputs \cup RaggedInputs
    /\ pc = "start"
    /\ prices = <<>>
    /\ highs = <<>>
    /\ lows = <<>>
    /\ volumes = <<>>
    /\ ind = Idle
    /\ signals = <<>>
    /\ result = Idle
    /\ fnIn = Idle
    /\ fnOut = Idle

Next == Coerce \/ CheckLength \/ Battery \/ ExtractSignals \/ BuildRecord

Spec == Init /\ [][Next]_vars


----------------------------------------------------------------------------
(* Direct calls of the aggregation and of calculate_bb_position. *)

(* the lists the extraction rules can emit: each rule adds at most one label *)
RuleLists ==
    {r \o m \o a \o b \o t :
        r \in {<<>>, <<"RSI_OVERSOLD">>, <<"RSI_OVERBOUGHT">>},
        m \in {<<>>, <<"MACD_BULLISH">>, <<"MACD_BEARISH">>},
        a \in {<<>>, <<"STRONG_TREND">>},
        b \in {<<>>, <<"BB_OVERSOLD">>, <<"BB_OVERBOUGHT">>},
        t \in {<<>>, <<"TREND_BULLISH">>, <<"TREND_BEARISH">>}}

InitIdle ==
    /\ variant = "both"
    /\ data = [prices |-> <<>>]
    /\ pc = "call"
    /\ prices = <<>>
    /\ highs = <<>>
    /\ lows = <<>>
    /\ volumes = <<>>
    /\ ind = Idle
    /\ signals = <<>>
    /\ result = Idle
    /\ fnOut = Idle

InitAgg ==
    /\ InitIdle
    /\ fnIn \in {[kind |-> "summary", first |-> x, second |-> y] : x \in RuleLists, y \in RuleLists}

(* the summary of two signal lists, by each variant *)
Summarize ==
    /\ pc = "call"
    /\ fnIn.kind = "summary"
    /\ fnOut' = [kind |-> "summary",
                 full |-> <<generate_summary(fnIn.first), generate_summary(fnIn.second)>>,
                 reduced |-> <<reduced_summary(fnIn.first), reduced_summary(fnIn.second)>>]
    /\ pc' = "returned"
    /\ UNCHANGED <<variant, data, prices, highs, lows, volumes, ind, signals, result, fnIn>>

SpecAgg == InitAgg /\ [][Summarize]_vars

BandValues == {Num(u * Scale) : u \in (-MaxBand)..MaxBand}

InitBB ==
    /\ InitIdle
    /\ fnIn \in {[kind |-> "bb", price |-> x, upper |-> u, lower |-> l] :
                    x \in BandValues, u \in BandValues, l \in BandValues}

(* calculate_bb_position(price, upper, lower), by each variant *)
ClassifyBand ==
    /\ pc = "call"
    /\ fnIn.kind = "bb"
    /\ fnOut' = [kind |-> "bb",
                 full |-> calculate_bb_position_full(fnIn.price, fnIn.upper, fnIn.lower),
                 reduced |-> calculate_bb_position_reduced(fnIn.price, fnIn.upper, fnIn.lower)]
    /\ pc' = "returned"
    /\ UNCHANGED <<variant, data, prices, highs, lows, volumes, ind, signals, result, fnIn>>

SpecBB == InitBB /\ [][ClassifyBand]_vars


----------------------------------------------------------------------------
(* Properties. *)

(* the call has returned a record with success = true *)
Succeeded == pc = "done" /\ "success" \in DOMAIN result /\ result.success = TRUE

(* the labels of a signal list *)
Range(f) == {f[x] : x \in DOMAIN f}

OptionalSeries == {"highs", "lows", "volumes"}

(* some optional series is supplied with a length other than that of prices *)
Mismatched == \E k \in OptionalSeries : k \in DOMAIN data /\ Len(data[k]) # Len(data.prices)

(* all four series are supplied, with one length *)
FourEqual ==
    /\ OptionalSeries \subseteq DOMAIN data
    /\ \A k \in OptionalSeries : Len(data[k]) = Len(data.prices)

BullishOf(v) == IF v = "full" THEN bullish_signals_full ELSE bullish_signals_reduced
BearishOf(v) == IF v = "full" THEN bearish_signals_full ELSE bearish_signals_reduced

(* every number the indicators section of a success record carries *)
RecordValues ==
    LET i == result.indicators IN
    {i.rsi.rsi_14, i.rsi.rsi_7, i.rsi.rsi_21,
     i.macd.macd, i.macd.signal, i.macd.histogram,
     i.bollinger.upper, i.bollinger.middle, i.bollinger.lower,
     i.stochastic.k, i.stochastic.d, i.atr.value,
     i.moving_averages.sma_20, i.moving_averages.sma_50,
     i.moving_averages.ema_12, i.moving_averages.ema_26}
    \cup (IF variant = "full"
          THEN {i.adx.value, i.obv, i.williams_r, i.cci, i.mfi, i.sar}
          ELSE {})

Directions == {"BULLISH", "BEARISH"}

(* C1: in every success record of either variant the action is BUY when the      *)
(* bullish count exceeds the bearish count, SELL when the bearish count exceeds  *)
(* the bullish one and HOLD when they are equal, and strength is the winning     *)
(* count for BUY/SELL and exactly 0 for HOLD. The reduced variant breaks it: it  *)
(* reports max(bullish, bearish) as strength, also on a tie.                     *)
C1_SummaryFollowsCounts ==
    Succeeded =>
        LET b == CountIn(result.signals, BullishOf(variant))
            r == CountIn(result.signals, BearishOf(variant))
        IN /\ result.summary.action =
                  (IF b > r THEN "BUY" ELSE IF r > b THEN "SELL" ELSE "HOLD")
           /\ result.summary.strength = (IF b > r THEN b ELSE IF r > b THEN r ELSE 0)

(* C2: an input with fewer than 30 prices ends, in both variants, in a record    *)
(* with success = false and no indicators, signals or summary key. The full      *)
(* variant breaks it: its record has an error key and no success key.            *)
C2_ShortInputFails ==
    (pc = "done" /\ Len(data.prices) < MinPoints) =>
        /\ "success" \in DOMAIN result
        /\ result.success = FALSE
        /\ DOMAIN result \cap {"indicators", "signals", "summary"} = {}

(* C3: four equal-length series of 30 or more points end, in both variants, in a *)
(* success record every indicator value of which is a finite number or null.     *)
(* Both variants break it below 50 points: the full one ends in the failure      *)
(* record, the reduced one reports a NaN sma_50.                                 *)
C3_ValidInputSucceedsFinite ==
    (pc = "done" /\ FourEqual /\ Len(data.prices) >= MinPoints) =>
        /\ Succeeded
        /\ \A x \in RecordValues : IsNum(x) \/ IsNone(x)

(* C4: in a success record, an indicator whose latest value is undefined gives   *)
(* no directional signal or label: no TREND_* signal and no BULLISH/BEARISH      *)
(* moving-average trend without an sma_50, no MACD_* signal and no macd trend    *)
(* without a macd and signal line, no OVERSOLD/OVERBOUGHT stochastic signal      *)
(* without a %K. The reduced variant breaks it below 50 points: TREND_BEARISH.   *)
C4_UndefinedGivesNoDirection ==
    Succeeded =>
        LET i == result.indicators IN
        /\ ~IsNum(i.moving_averages.sma_50) =>
               /\ "TREND_BULLISH" \notin Range(result.signals)
               /\ "TREND_BEARISH" \notin Range(result.signals)
               /\ i.moving_averages.trend \notin Directions
        /\ (~IsNum(i.macd.macd) \/ ~IsNum(i.macd.signal)) =>
               /\ "MACD_BULLISH" \notin Range(result.signals)
               /\ "MACD_BEARISH" \notin Range(result.signals)
               /\ i.macd.trend \notin Directions
        /\ ~IsNum(i.stochastic.k) => i.stochastic.signal = "NEUTRAL"

(* C5: in every success record the confidence (in hundredths) is                 *)
(* min(strength * k, cap) for BUY and SELL, with (k, cap) = (25, 85) in the full *)
(* variant and (20, 80) in the reduced one, so it is at most cap; and it is      *)
(* exactly 50 for HOLD whatever the counts are.                                  *)
C5_ConfidenceFormula ==
    Succeeded =>
        LET s == result.summary
            k == IF variant = "full" THEN 25 ELSE 20
            cap == IF variant = "full" THEN 85 ELSE 80
        IN /\ s.action \in {"BUY", "SELL", "HOLD"}
           /\ s.action \in {"BUY", "SELL"} =>
                  /\ s.confidence = (IF s.strength * k < cap THEN s.strength * k ELSE cap)
                  /\ s.confidence <= cap
           /\ s.action = "HOLD" => s.confidence = 50

(* a reduced success record that says SELL on three bearish signals *)
C5_ThreeBearishSell ==
    /\ Succeeded
    /\ variant = "reduced"
    /\ result.summary.action = "SELL"
    /\ result.summary.strength = 3
    /\ result.summary.confidence = 60

(* C6: in every success record the signal list holds exactly one of MACD_BULLISH *)
(* and MACD_BEARISH; it is MACD_BULLISH exactly when the latest macd line is     *)
(* strictly greater than the latest signal line (equality is BEARISH); and       *)
(* indicators.macd.trend names the same direction.                               *)
C6_ExactlyOneMacdSignal ==
    Succeeded =>
        LET m == result.indicators.macd
            bull == CountIn(result.signals, {"MACD_BULLISH"})
            bear == CountIn(result.signals, {"MACD_BEARISH"})
        IN /\ bull + bear = 1
           /\ IsNum(m.macd) /\ IsNum(m.signal)
           /\ (bull = 1) <=> (m.macd.v > m.signal.v)
           /\ m.trend = (IF bull = 1 THEN "BULLISH" ELSE "BEARISH")

(* a success record whose macd line equals its signal line, classified BEARISH *)
C6_EqualLinesBearish ==
    /\ Succeeded
    /\ result.indicators.macd.macd = result.indicators.macd.signal
    /\ "MACD_BEARISH" \in Range(result.signals)
    /\ result.indicators.macd.trend = "BEARISH"

(* the position the ratio (price - lower) / (upper - lower) asks for, worked out *)
(* without a division                                                             *)
ExpectedPosition(price, upper, lower) ==
    LET num == price.v - lower.v
        den == upper.v - lower.v
    IN IF den = 0 THEN "UNKNOWN"
       ELSE IF (den > 0 /\ 5 * num < den) \/ (den < 0 /\ 5 * num > den) THEN "LOWER"
       ELSE IF (den > 0 /\ 5 * num > 4 * den) \/ (den < 0 /\ 5 * num < 4 * den) THEN "UPPER"
       ELSE "MIDDLE"

(* C7: calculate_bb_position of either variant returns UNKNOWN exactly when      *)
(* upper = lower, and otherwise LOWER when (price - lower) / (upper - lower) is  *)
(* below 0.2, UPPER when it is above 0.8 and MIDDLE in between, also when upper  *)
(* or lower is 0. The full variant breaks it: a band equal to 0 gives UNKNOWN.   *)
C7_BandPositionTotal ==
    (pc = "returned" /\ fnOut.kind = "bb") =>
        /\ fnOut.full = ExpectedPosition(fnIn.price, fnIn.upper, fnIn.lower)
        /\ fnOut.reduced = ExpectedPosition(fnIn.price, fnIn.upper, fnIn.lower)

(* C8: an input of 30 or more prices with an optional series of another length   *)
(* ends, in both variants, in a failure record (success = false with an error).  *)
(* The reduced variant breaks it: it never reads volumes, and it pads highs of   *)
(* another length with undefined values.                                         *)
C8_MismatchFails ==
    (pc = "done" /\ Len(data.prices) >= MinPoints /\ Mismatched) =>
        /\ "success" \in DOMAIN result
        /\ result.success = FALSE
        /\ "error" \in DOMAIN result

(* the two lists have one bearish count and the second has more bullish signals *)
MoreBullish(v) ==
    /\ CountIn(fnIn.first, BearishOf(v)) = CountIn(fnIn.second, BearishOf(v))
    /\ CountIn(fnIn.first, BullishOf(v)) < CountIn(fnIn.second, BullishOf(v))

(* C9: of two signal lists with the same bearish count, the second with the      *)
(* larger bullish count: if the first summary says BUY, the second says BUY with *)
(* a strength not smaller; if the first does not say SELL, neither does the      *)
(* second. In both variants.                                                     *)
C9_AggregationMonotonic ==
    (pc = "returned" /\ fnOut.kind = "summary") =>
        \A v \in {"full", "reduced"} :
            MoreBullish(v) =>
                LET one == fnOut[v][1]
                    two == fnOut[v][2]
                IN /\ one.action = "BUY" =>
                          (two.action = "BUY" /\ two.strength >= one.strength)
                   /\ one.action # "SELL" => two.action # "SELL"

(* a BUY on two bullish signals against one bearish, then on three against one *)
C9_BuyGrowsStronger ==
    /\ pc = "returned"
    /\ fnOut.kind = "summary"
    /\ MoreBullish("full")
    /\ fnOut.full[1].action = "BUY"
    /\ fnOut.full[1].strength = 2
    /\ fnOut.full[2].action = "BUY"
    /\ fnOut.full[2].strength = 3

(* the latest values the full variant compares without a guard *)
ComparedValues ==
    LET i == result.indicators IN
    {i.rsi.rsi_14, i.macd.macd, i.macd.signal, i.bollinger.upper, i.bollinger.lower,
     i.stochastic.k, i.atr.value, i.moving_averages.sma_20, i.moving_averages.sma_50}

(* C10: the full variant returns success = true only if the latest RSI(14), macd *)
(* line, signal line, both Bollinger bands, stochastic %K, ATR, SMA20 and SMA50  *)
(* are all defined; so no input of fewer than 50 prices succeeds, and no success *)
(* record carries a null in a compared field.                                    *)
C10_FullSuccessNeedsAllDefined ==
    (variant = "full" /\ Succeeded) =>
        /\ Len(data.prices) >= SmaLong
        /\ \A x \in ComparedValues : IsNum(x)

(* a full success record on exactly 50 prices *)
C10_FullSuccessAtFifty ==
    /\ variant = "full"
    /\ Succeeded
    /\ Len(data.prices) = SmaLong
    /\ IsNum(result.indicators.moving_averages.sma_50)


====
